---- MODULE Spec2Model ----
(***************************************************************************)
(* Model of blockchain/blockchain.py: the BlockChain class, its chain of   *)
(* BLOCK tuples, the pending list `current`, hashing and proof of work.    *)
(*                                                                         *)
(* Python lists are objects: a BLOCK built from self.current holds a       *)
(* reference to that list, not a copy.  The model therefore keeps a heap   *)
(* of lists (`lists`) and a store of TRANSACTION tuples (`objs`); a        *)
(* block's Transactions field and `current` are references into `lists`,   *)
(* and a list's elements are references into `objs`.                       *)
(*                                                                         *)
(* Strings are sequences of ASCII codes.  SHA-256 is modelled by a small   *)
(* keyed fold over the bytes whose digest has DigestHexLen hex characters  *)
(* (64 in hashlib), and the proof target is ZeroPrefixLen leading "0"      *)
(* characters ("0000" in the source).                                      *)
(***************************************************************************)
EXTENDS Integers, Sequences, FiniteSets, TLC

VARIABLES chain, current, lists, objs, clock, lastOp, retBlock, retTx, raised,
          callArgs, callRet, submittedAt, pc, frame

\* chain, current: the fields of the BlockChain object; lists, objs: the
\* list objects and TRANSACTION tuples they refer to; clock: time();
\* lastOp, callArgs: the last call and its arguments; retBlock, retTx,
\* callRet, raised: what it returned or that it raised; submittedAt: for
\* each TRANSACTION, the size of the chain when it was submitted;
\* pc, frame: the position and the locals of a create_block call that is
\* running statement by statement
vars == <<chain, current, lists, objs, clock, lastOp, retBlock, retTx, raised,
          callArgs, callRet, submittedAt, pc, frame>>

(* ---------------------------- bounds ----------------------------------- *)
MaxChain == 4
MaxTx == 2
MaxClock == 1
MaxProof == 100
\* the chain length up to which statement-by-statement create_block calls start
MaxInterleavedChain == 3
\* the largest int passed to validate_proof as last_proof or proof
MaxProofArg == 5
\* the chain length up to which blocks are sealed between direct calls of
\* _reset_current_transactions
MaxResetChain == 3

(* ------------------------ digest parameters ----------------------------- *)
DigestHexLen == 2
ZeroPrefixLen == 1

HashSpace == 16 ^ DigestHexLen

(* ------------------------------ inputs ---------------------------------- *)
\* the calls create_transaction("A", "B", 1) and create_transaction("B", "A", 5)
Arguments ==
    {[sender |-> <<65>>, recipient |-> <<66>>, amount |-> 1],
     [sender |-> <<66>>, recipient |-> <<65>>, amount |-> 5]}

(* --------------------------- Python values ------------------------------ *)
\* a str value
PyStrVal(s) == [ty |-> "str", s |-> s, n |-> 0]
\* an int value
PyIntVal(n) == [ty |-> "int", s |-> <<>>, n |-> n]

RECURSIVE Dec(_)
\* str(n) of a non-negative int: its decimal digits
Dec(n) == IF n < 10 THEN <<48 + n>> ELSE Dec(n \div 10) \o <<48 + (n % 10)>>

\* '%s' % v
Format(v) == IF v.ty = "str" THEN v.s ELSE Dec(v.n)

\* json.dumps of a str (no escapes needed for the alphabet used)
JsonStr(s) == <<34>> \o s \o <<34>>

\* json.dumps of a str or int value
JsonValue(v) == IF v.ty = "str" THEN JsonStr(v.s) ELSE Dec(v.n)

\* json.dumps of a float with integral value: repr gives "<n>.0"
JsonFloat(t) == Dec(t) \o <<46, 48>>

RECURSIVE JsonJoin(_)
\* items separated by ", "
JsonJoin(items) ==
    IF items = <<>> THEN <<>>
    ELSE IF Len(items) = 1 THEN items[1]
    ELSE items[1] \o <<44, 32>> \o JsonJoin(Tail(items))

\* json.dumps of a list / tuple whose items are already serialised
JsonArray(items) == <<91>> \o JsonJoin(items) \o <<93>>

(* ------------------------------ tuples ---------------------------------- *)
TRANSACTION(sender, recipient, amount) ==
    [From |-> sender, To |-> recipient, Amount |-> amount]

BLOCK(index, timestamp, transactions, hash, previous_hash) ==
    [Index |-> index, Timestamp |-> timestamp, Transactions |-> transactions,
     Hash |-> hash, PreviousHash |-> previous_hash]

\* the absent value returned by get_last_block on an empty chain
None == BLOCK(0, 0, 0, PyStrVal(<<>>), <<>>)

(* ------------------------------ hashing --------------------------------- *)
RECURSIVE PowMod(_)
\* 31^n modulo HashSpace, by squaring
PowMod(n) ==
    IF n = 0 THEN 1 % HashSpace
    ELSE LET half == PowMod(n \div 2)
         IN  (half * half * (IF n % 2 = 1 THEN 31 ELSE 1)) % HashSpace

RECURSIVE Mix(_, _, _)
\* the fold h <- 31 * h + 7 * bytes[k] + k over bytes[lo..hi], started at 0;
\* evaluated by halving the range so that long inputs stay shallow
Mix(bytes, lo, hi) ==
    IF lo > hi THEN 0
    ELSE IF lo = hi THEN ((bytes[lo] * 7) + lo) % HashSpace
    ELSE LET mid == (lo + hi) \div 2
         IN  ((Mix(bytes, lo, mid) * PowMod(hi - mid)) + Mix(bytes, mid + 1, hi)) % HashSpace

\* hashlib.sha256(bytes) as a number below HashSpace: the fold started at 3
Sha256(bytes) == ((3 * PowMod(Len(bytes))) + Mix(bytes, 1, Len(bytes))) % HashSpace

\* one hexadecimal character
HexChar(d) == IF d < 10 THEN 48 + d ELSE 87 + d

\* .hexdigest(): DigestHexLen hexadecimal characters, most significant first
HexDigest(h) ==
    [k \in 1..DigestHexLen |-> HexChar((h \div (16 ^ (DigestHexLen - k))) % 16)]

\* the values of the TRANSACTION tuples a list refers to
ListValue(ls, os, ref) == [k \in 1..Len(ls[ref]) |-> os[ls[ref][k]]]

JsonTransaction(tx) ==
    JsonArray(<<JsonStr(tx.From), JsonStr(tx.To), Dec(tx.Amount)>>)

\* json.dumps(block, sort_keys=True): a namedtuple is dumped as an array
JsonDumps(block, ls, os) ==
    LET txs == ListValue(ls, os, block.Transactions)
    IN  JsonArray(<<Dec(block.Index),
                    JsonFloat(block.Timestamp),
                    JsonArray([k \in 1..Len(txs) |-> JsonTransaction(txs[k])]),
                    JsonValue(block.Hash),
                    JsonStr(block.PreviousHash)>>)

hash_block(block, ls, os) == HexDigest(Sha256(JsonDumps(block, ls, os)))

\* variant: proof and last_proof change places in the guess
validate_proof_swapped(last_proof, proof, last_hash) ==
    LET guess == Format(proof) \o Format(last_proof) \o last_hash
        guess_hash == HexDigest(Sha256(guess))
    IN  SubSeq(guess_hash, 1, ZeroPrefixLen) = [k \in 1..ZeroPrefixLen |-> 48]

validate_proof(last_proof, proof, last_hash) ==
    LET guess == Format(last_proof) \o Format(proof) \o last_hash
        guess_hash == HexDigest(Sha256(guess))
    IN  SubSeq(guess_hash, 1, ZeroPrefixLen) = [k \in 1..ZeroPrefixLen |-> 48]

(* --------------------------- chain accessors ---------------------------- *)
\* variant: the index of the last block instead of the number of blocks
get_size_last_index(ch) == Len(ch) - 1

get_size(ch) == Len(ch)

\* variant: a chain of one block is taken for an empty one
get_last_block_strict(ch) == IF Len(ch) > 1 THEN ch[Len(ch)] ELSE None

get_last_block(ch) == IF ch # <<>> THEN ch[Len(ch)] ELSE None

(* --------------------------- proof of work ------------------------------ *)
RECURSIVE ProofSearch(_, _, _)
\* the while loop; -1 stands for a search that is still running at MaxProof
ProofSearch(last_proof, last_hash, proof) ==
    IF proof > MaxProof THEN -1
    ELSE IF validate_proof(last_proof, PyIntVal(proof), last_hash) THEN proof
    ELSE ProofSearch(last_proof, last_hash, proof + 1)

\* variant: seeds the search with the last block's stored PreviousHash
generate_proof_of_work_stale(ch, ls, os) ==
    LET last_block == get_last_block(ch)
        last_proof == last_block.Hash
        last_hash == last_block.PreviousHash
    IN  ProofSearch(last_proof, last_hash, 0)

\* variant: the search starts at proof = 1
generate_proof_of_work_from_one(ch, ls, os) ==
    LET last_block == get_last_block(ch)
        last_proof == last_block.Hash
        last_hash == hash_block(last_block, ls, os)
    IN  ProofSearch(last_proof, last_hash, 1)

generate_proof_of_work(ch, ls, os) ==
    LET last_block == get_last_block(ch)
        last_proof == last_block.Hash
        last_hash == hash_block(last_block, ls, os)
    IN  ProofSearch(last_proof, last_hash, 0)

(* ------------------------------ sealing --------------------------------- *)
\* variant: the queue is never replaced by a fresh list
reset_current_transactions_keep(ch, ls, os, cur) ==
    IF ls[cur] = <<>>
    THEN [lists |-> ls, current |-> cur, raised |-> FALSE, value |-> TRUE]
    ELSE IF ch # <<>> /\ ListValue(ls, os, ch[Len(ch)].Transactions) = ListValue(ls, os, cur)
    THEN [lists |-> ls, current |-> cur, raised |-> FALSE, value |-> TRUE]
    ELSE [lists |-> ls, current |-> cur, raised |-> TRUE]

\* variant: the queue is compared with the first block instead of the last
reset_current_transactions_first(ch, ls, os, cur) ==
    IF ls[cur] = <<>>
    THEN [lists |-> ls, current |-> cur, raised |-> FALSE, value |-> TRUE]
    ELSE IF ch # <<>> /\ ListValue(ls, os, ch[1].Transactions) = ListValue(ls, os, cur)
    THEN [lists |-> Append(ls, <<>>), current |-> Len(ls) + 1, raised |-> FALSE, value |-> TRUE]
    ELSE [lists |-> ls, current |-> cur, raised |-> TRUE]

\* variant: a mismatch is reported by returning False
reset_current_transactions_false(ch, ls, os, cur) ==
    IF ls[cur] = <<>>
    THEN [lists |-> ls, current |-> cur, raised |-> FALSE, value |-> TRUE]
    ELSE IF ch # <<>> /\ ListValue(ls, os, ch[Len(ch)].Transactions) = ListValue(ls, os, cur)
    THEN [lists |-> Append(ls, <<>>), current |-> Len(ls) + 1, raised |-> FALSE, value |-> TRUE]
    ELSE [lists |-> ls, current |-> cur, raised |-> FALSE, value |-> FALSE]

\* the result of _reset_current_transactions on chain ch, heap ls, queue cur:
\* the heap and the queue it leaves, whether it raised, the value it returned
reset_current_transactions(ch, ls, os, cur) ==
    IF ls[cur] = <<>>
    THEN [lists |-> ls, current |-> cur, raised |-> FALSE, value |-> TRUE]
    ELSE IF ch # <<>> /\ ListValue(ls, os, ch[Len(ch)].Transactions) = ListValue(ls, os, cur)
    THEN [lists |-> Append(ls, <<>>), current |-> Len(ls) + 1, raised |-> FALSE, value |-> TRUE]
    ELSE [lists |-> ls, current |-> cur, raised |-> TRUE]

\* variant: the genesis proof as the int 100
genesis_proof_int == PyIntVal(100)

\* proof = "100" of the genesis block
genesis_proof == PyStrVal(<<49, 48, 48>>)

\* previous_hash = "1" of the genesis block
genesis_previous_hash == <<49>>

\* variant: the Index is the old size
block_index_old_size(ch) == get_size(ch)

\* the Index given to a new block
block_index(ch) == get_size(ch) + 1

\* the BLOCK built by create_block at time t
new_block(ch, ls, os, cur, is_genesis, t) ==
    IF is_genesis
    THEN BLOCK(block_index(ch), t, cur, genesis_proof, genesis_previous_hash)
    ELSE LET proof == generate_proof_of_work(ch, ls, os)
             previous_hash == hash_block(get_last_block(ch), ls, os)
         IN  BLOCK(block_index(ch), t, cur, PyIntVal(proof), previous_hash)

\* variant: the block is inserted at the front
chain_append_front(ch, block) == <<block>> \o ch

\* self.chain.append(block)
chain_append(ch, block) == Append(ch, block)

\* the whole of create_block: the state it leaves and the block it returns
\* (last_block.Hash on None raises when a non-genesis block is asked of an
\* empty chain: nothing is appended then)
sealed(ch, ls, os, cur, is_genesis, t) ==
    IF ~is_genesis /\ get_last_block(ch) = None
    THEN [chain |-> ch, lists |-> ls, current |-> cur, raised |-> TRUE, block |-> None]
    ELSE LET block == new_block(ch, ls, os, cur, is_genesis, t)
             ch2 == chain_append(ch, block)
             r == reset_current_transactions(ch2, ls, os, cur)
         IN  [chain |-> ch2, lists |-> r.lists, current |-> r.current,
              raised |-> r.raised, block |-> block]

\* no arguments, no returned value, no locals
NoArgs == [none |-> TRUE]
NoValue == [none |-> TRUE]
NoFrame == [none |-> TRUE]

\* __init__ at time t: chain = [], current = [], then the genesis block
constructed(t) == sealed(<<>>, <<<<>>>>, <<>>, 1, TRUE, t)

(* ------------------------------ the machine ----------------------------- *)
Init ==
    \E t \in 0..1 :
        LET r == constructed(t) IN
        /\ chain = r.chain
        /\ lists = r.lists
        /\ current = r.current
        /\ raised = r.raised
        /\ objs = <<>>
        /\ clock = t
        /\ lastOp = "init"
        /\ retBlock = None
        /\ retTx = 0
        /\ callArgs = NoArgs
        /\ callRet = NoValue
        /\ submittedAt = <<>>
        /\ pc = "idle"
        /\ frame = NoFrame

create_transaction(sender, recipient, amount) ==
    /\ Len(objs) < MaxTx
    /\ objs' = Append(objs, TRANSACTION(sender, recipient, amount))
    /\ lists' = [lists EXCEPT ![current] = Append(@, Len(objs) + 1)]
    /\ retTx' = Len(objs) + 1
    /\ lastOp' = "create_transaction"
    /\ raised' = FALSE
    /\ callArgs' = [sender |-> sender, recipient |-> recipient, amount |-> amount]
    /\ submittedAt' = Append(submittedAt, [size |-> get_size(chain), pc |-> pc])
    /\ callRet' = NoValue
    /\ UNCHANGED <<chain, current, clock, retBlock, pc, frame>>

create_block(is_genesis) ==
    /\ Len(chain) < MaxChain
    /\ \E t \in clock..(IF clock < MaxClock THEN clock + 1 ELSE clock) :
        LET r == sealed(chain, lists, objs, current, is_genesis, t) IN
        \* the proof search has returned
        /\ r.block.Hash.ty = "int" => r.block.Hash.n >= 0
        /\ chain' = r.chain
        /\ lists' = r.lists
        /\ current' = r.current
        /\ raised' = r.raised
        /\ retBlock' = IF r.raised THEN None ELSE r.block
        /\ clock' = t
    /\ lastOp' = "create_block"
    /\ callArgs' = [is_genesis |-> is_genesis]
    /\ callRet' = NoValue
    /\ UNCHANGED <<objs, retTx, submittedAt, pc, frame>>

Next ==
    \/ \E a \in Arguments : create_transaction(a.sender, a.recipient, a.amount)
    \/ create_block(FALSE)

Spec == Init /\ [][Next]_vars

(* ---------------------------- validate_proof ---------------------------- *)
\* values passed as last_proof and proof: the str "100" and small ints
ProofArgs == {PyStrVal(<<49, 48, 48>>)} \cup {PyIntVal(n) : n \in 0..MaxProofArg}

\* values passed as last_hash: every digest, "1" and "abc"
HashArgs == {HexDigest(h) : h \in 0..(HashSpace - 1)} \cup {<<49>>, <<97, 98, 99>>}

\* a constructed object and the arguments of a validate_proof call to come
InitValidate ==
    \E t \in 0..1, last_proof \in ProofArgs, proof \in ProofArgs, last_hash \in HashArgs :
        LET r == constructed(t) IN
        /\ chain = r.chain
        /\ lists = r.lists
        /\ current = r.current
        /\ raised = r.raised
        /\ objs = <<>>
        /\ clock = t
        /\ lastOp = "init"
        /\ retBlock = None
        /\ retTx = 0
        /\ callArgs = [last_proof |-> last_proof, proof |-> proof, last_hash |-> last_hash]
        /\ callRet = NoValue
        /\ submittedAt = <<>>
        /\ pc = "idle"
        /\ frame = NoFrame

\* a call of the static method validate_proof
call_validate_proof ==
    /\ lastOp' = "validate_proof"
    /\ callRet' = validate_proof(callArgs.last_proof, callArgs.proof, callArgs.last_hash)
    /\ raised' = FALSE
    /\ UNCHANGED <<chain, current, lists, objs, clock, retBlock, retTx, callArgs,
                   submittedAt, pc, frame>>

SpecValidate == InitValidate /\ [][call_validate_proof]_vars

(* --------------------- _reset_current_transactions ---------------------- *)
\* a call of _reset_current_transactions() on the object as it stands
call_reset_current_transactions ==
    /\ LET r == reset_current_transactions(chain, lists, objs, current) IN
        /\ lists' = r.lists
        /\ current' = r.current
        /\ raised' = r.raised
        /\ callRet' = IF r.raised THEN NoValue ELSE r.value
    /\ lastOp' = "_reset_current_transactions"
    /\ callArgs' = NoArgs
    /\ UNCHANGED <<chain, objs, clock, retBlock, retTx, submittedAt, pc, frame>>

NextReset ==
    \/ \E a \in Arguments : create_transaction(a.sender, a.recipient, a.amount)
    \/ (Len(chain) < MaxResetChain /\ create_block(FALSE))
    \/ call_reset_current_transactions

SpecReset == Init /\ [][NextReset]_vars

(* ------------------------------ accessors ------------------------------- *)
\* a call of get_size()
call_get_size ==
    /\ lastOp' = "get_size"
    /\ callArgs' = NoArgs
    /\ callRet' = get_size(chain)
    /\ raised' = FALSE
    /\ UNCHANGED <<chain, current, lists, objs, clock, retBlock, retTx, submittedAt, pc, frame>>

\* a call of get_last_block()
call_get_last_block ==
    /\ lastOp' = "get_last_block"
    /\ callArgs' = NoArgs
    /\ callRet' = NoValue
    /\ retBlock' = get_last_block(chain)
    /\ raised' = FALSE
    /\ UNCHANGED <<chain, current, lists, objs, clock, retTx, submittedAt, pc, frame>>

\* a call of get_chain(): the list self.chain
call_get_chain ==
    /\ lastOp' = "get_chain"
    /\ callArgs' = NoArgs
    /\ callRet' = chain
    /\ raised' = FALSE
    /\ UNCHANGED <<chain, current, lists, objs, clock, retBlock, retTx, submittedAt, pc, frame>>

NextAccessors ==
    \/ \E a \in Arguments : create_transaction(a.sender, a.recipient, a.amount)
    \/ create_block(FALSE)
    \/ call_get_size
    \/ call_get_last_block
    \/ call_get_chain

SpecAccessors == Init /\ [][NextAccessors]_vars

(* ------------- create_block running statement by statement ------------- *)
\* variant: the block gets a copy of the queue, list(self.current)
built_copy(ch, ls, cur, proof, previous_hash, t) ==
    [block |-> BLOCK(block_index(ch), t, Len(ls) + 1, PyIntVal(proof), previous_hash),
     lists |-> Append(ls, ls[cur])]

\* block = BLOCK(self.get_size() + 1, time(), self.current, proof, previous_hash):
\* the block refers to the list self.current refers to; no list is created
built(ch, ls, cur, proof, previous_hash, t) ==
    [block |-> BLOCK(block_index(ch), t, cur, PyIntVal(proof), previous_hash),
     lists |-> ls]

\* proof = self._generate_proof_of_work()
seal_proof ==
    /\ pc = "idle"
    /\ Len(chain) < MaxInterleavedChain
    /\ get_last_block(chain) # None
    /\ LET proof == generate_proof_of_work(chain, lists, objs) IN
        /\ proof >= 0
        /\ frame' = [proof |-> proof, previous_hash |-> <<>>, block |-> None]
    /\ pc' = "previous_hash"
    /\ callArgs' = [is_genesis |-> FALSE]
    /\ UNCHANGED <<chain, current, lists, objs, clock, lastOp, retBlock, retTx,
                   raised, callRet, submittedAt>>

\* previous_hash = self.hash_block(self.get_last_block())
seal_previous_hash ==
    /\ pc = "previous_hash"
    /\ frame' = [frame EXCEPT !.previous_hash = hash_block(get_last_block(chain), lists, objs)]
    /\ pc' = "block"
    /\ UNCHANGED <<chain, current, lists, objs, clock, lastOp, retBlock, retTx,
                   raised, callArgs, callRet, submittedAt>>

\* block = BLOCK(...)
seal_block ==
    /\ pc = "block"
    /\ \E t \in clock..(IF clock < MaxClock THEN clock + 1 ELSE clock) :
        LET b == built(chain, lists, current, frame.proof, frame.previous_hash, t) IN
        /\ frame' = [frame EXCEPT !.block = b.block]
        /\ lists' = b.lists
        /\ clock' = t
    /\ pc' = "append"
    /\ UNCHANGED <<chain, current, objs, lastOp, retBlock, retTx,
                   raised, callArgs, callRet, submittedAt>>

\* self.chain.append(block)
seal_append ==
    /\ pc = "append"
    /\ chain' = chain_append(chain, frame.block)
    /\ pc' = "reset"
    /\ UNCHANGED <<current, lists, objs, clock, lastOp, retBlock, retTx,
                   raised, callArgs, callRet, submittedAt, frame>>

\* self._reset_current_transactions(): the two tests; the call returns or
\* raises here unless the queue is to be replaced
seal_reset ==
    /\ pc = "reset"
    /\ LET r == reset_current_transactions(chain, lists, objs, current) IN
        IF r.raised
        THEN /\ pc' = "idle"
             /\ raised' = TRUE
             /\ retBlock' = None
             /\ lastOp' = "create_block"
             /\ frame' = NoFrame
        ELSE IF r.current = current
        THEN /\ pc' = "idle"
             /\ raised' = FALSE
             /\ retBlock' = frame.block
             /\ lastOp' = "create_block"
             /\ frame' = NoFrame
        ELSE /\ pc' = "clear"
             /\ UNCHANGED <<raised, retBlock, lastOp, frame>>
    /\ UNCHANGED <<chain, current, lists, objs, clock, retTx, callArgs, callRet, submittedAt>>

\* self.current = [], then the returns of _reset_current_transactions and
\* of create_block
seal_clear ==
    /\ pc = "clear"
    /\ lists' = Append(lists, <<>>)
    /\ current' = Len(lists) + 1
    /\ pc' = "idle"
    /\ raised' = FALSE
    /\ retBlock' = frame.block
    /\ lastOp' = "create_block"
    /\ frame' = NoFrame
    /\ UNCHANGED <<chain, objs, clock, retTx, callArgs, callRet, submittedAt>>

\* one create_block(is_genesis=False) call at a time, with create_transaction
\* calls of other threads between its statements
NextInterleaved ==
    \/ \E a \in Arguments : create_transaction(a.sender, a.recipient, a.amount)
    \/ seal_proof
    \/ seal_previous_hash
    \/ seal_block
    \/ seal_append
    \/ seal_reset
    \/ seal_clear

SpecInterleaved == Init /\ [][NextInterleaved]_vars

\* every call a caller can make on the object: create_block takes its
\* is_genesis flag from the caller
NextPublic ==
    \/ \E a \in Arguments : create_transaction(a.sender, a.recipient, a.amount)
    \/ \E is_genesis \in BOOLEAN : create_block(is_genesis)

SpecPublic == Init /\ [][NextPublic]_vars

(* ------------------------- state read by the claims --------------------- *)
\* the contents of self.current
Pending == lists[current]

\* the contents of the Transactions list of a block
BlockTransactions(block) == ListValue(lists, objs, block.Transactions)

\* the blocks whose Transactions list holds the TRANSACTION object ref
Holders(ref) ==
    {i \in 1..Len(chain) :
        \E k \in 1..Len(lists[chain[i].Transactions]) : lists[chain[i].Transactions][k] = ref}

\* TRUE when the pending list holds the TRANSACTION object ref
InPending(ref) == \E k \in 1..Len(Pending) : Pending[k] = ref

\* TRUE when the TRANSACTION object ref is in neither the queue nor a block
Lost(ref) == ~InPending(ref) /\ Holders(ref) = {}

\* TRUE when the TRANSACTION object ref is in a block that was in the chain
\* already when the transaction was submitted
Misattributed(ref) == \E i \in Holders(ref) : i <= submittedAt[ref].size

(* -------------------------------- claims -------------------------------- *)

\* C1: in every reachable state, every block at position i > 1 has a
\* PreviousHash equal to hash_block of the block before it, recomputed from
\* that block as it stands in the state.
C1_HashLinkage ==
    \A i \in 2..Len(chain) :
        chain[i].PreviousHash = hash_block(chain[i - 1], lists, objs)

\* C2: no step changes the transaction sequence of a block that is already
\* in the chain.
C2_SealedTransactionsFrozen ==
    [][\A i \in 1..Len(chain) :
          ListValue(lists', objs', chain'[i].Transactions) = BlockTransactions(chain[i])]_vars

C4_IndicesGapFree ==
    /\ [](\A i \in 1..Len(chain) : chain[i].Index = i)
    /\ [][lastOp' = "create_block" =>
             /\ get_size(chain') = get_size(chain) + 1
             /\ retBlock'.Index = get_size(chain')]_vars

\* C4 witness: two non-genesis blocks have been sealed.
C4_Witness == lastOp = "create_block" /\ Len(chain) >= 3

\* C5: a create_block call returns a block whose transactions are exactly
\* the pending queue of the pre-state, in order; that block is the last block
\* of the chain; and the pending queue is empty after the call.
C5_SealDrainsQueue ==
    [][lastOp' = "create_block" =>
          /\ ListValue(lists', objs', retBlock'.Transactions) = ListValue(lists, objs, current)
          /\ retBlock' = get_last_block(chain')
          /\ lists'[current'] = <<>>]_vars

\* C5 witness: a block has just been sealed from a queue of two transactions.
C5_Witness == lastOp = "create_block" /\ Len(BlockTransactions(retBlock)) = 2

\* C6: right after construction the chain has one block, the pending queue
\* is empty, and the block is the genesis block: Index 1, proof the str "100",
\* PreviousHash the str "1", no transactions.
C6_FreshChain ==
    lastOp = "init" =>
        /\ get_size(chain) = 1
        /\ Pending = <<>>
        /\ raised = FALSE
        /\ chain[1].Index = 1
        /\ chain[1].Hash = PyStrVal(<<49, 48, 48>>)
        /\ chain[1].PreviousHash = <<49>>
        /\ BlockTransactions(chain[1]) = <<>>

\* C6 witness: the freshly constructed object.
C6_Witness == lastOp = "init" /\ objs = <<>> /\ Len(chain) = 1

\* C7: every TRANSACTION object returned by create_transaction is either in
\* the pending queue and in no block, or in exactly one block and not in the
\* pending queue.
C7_SingleOwner ==
    \A ref \in 1..Len(objs) :
        \/ InPending(ref) /\ Holders(ref) = {}
        \/ ~InPending(ref) /\ Cardinality(Holders(ref)) = 1

\* C8: in every reachable state, for consecutive blocks b1, b2 the proof of
\* b2 validates against the proof of b1 and hash_block(b1) recomputed in
\* that state.
C8_RecomputedProofValid ==
    \A i \in 2..Len(chain) :
        validate_proof(chain[i - 1].Hash, chain[i].Hash,
                       hash_block(chain[i - 1], lists, objs))

\* C9: no create_transaction or create_block call raises; the raise of
\* _reset_current_transactions is never reached.
C9_NeverRaises == raised = FALSE

\* C9 witness: a block sealed from a non-empty queue, so that the comparison
\* in _reset_current_transactions was made, after an earlier such block.
C9_Witness ==
    /\ lastOp = "create_block"
    /\ Len(BlockTransactions(retBlock)) > 0
    /\ Len(lists) >= 3

\* C10: across every step the chain does not shrink and every block already
\* in it keeps its position, Index, Timestamp, proof and PreviousHash.
C10_AppendOnly ==
    [][/\ get_size(chain') >= get_size(chain)
       /\ \A i \in 1..Len(chain) :
            /\ chain'[i].Index = chain[i].Index
            /\ chain'[i].Timestamp = chain[i].Timestamp
            /\ chain'[i].Hash = chain[i].Hash
            /\ chain'[i].PreviousHash = chain[i].PreviousHash]_vars

\* C10 witness: the chain has grown twice after construction.
C10_Witness == Len(chain) >= 3 /\ Len(objs) >= 1

\* C11: in every reachable state the chain holds at least one block and
\* get_last_block returns a block, the one appended last, never None.
C11_NeverEmpty ==
    /\ get_size(chain) >= 1
    /\ get_last_block(chain) # None
    /\ get_last_block(chain) = chain[Len(chain)]
    /\ lastOp = "create_block" => get_last_block(chain) = retBlock

\* C11 witness: the last block is one that create_block has just appended
\* to the genesis block.
C11_Witness ==
    /\ lastOp = "create_block"
    /\ get_size(chain) = 2
    /\ get_last_block(chain).Index = 2

\* C12: a create_transaction call does not raise, returns a TRANSACTION
\* whose From, To and Amount are the arguments, leaves the pending queue
\* equal to the old queue followed by that transaction, and changes neither
\* the chain nor the transactions of any block in it.
C12_CreateTransactionFrame ==
    [][lastOp' = "create_transaction" =>
          /\ raised' = FALSE
          /\ objs'[retTx'] =
                TRANSACTION(callArgs'.sender, callArgs'.recipient, callArgs'.amount)
          /\ ListValue(lists', objs', current') =
                Append(ListValue(lists, objs, current), objs'[retTx'])
          /\ chain' = chain
          /\ \A i \in 1..Len(chain) :
                ListValue(lists', objs', chain'[i].Transactions) = BlockTransactions(chain[i])]_vars

\* C13: in every reachable state the block at the first position is the
\* only block with PreviousHash "1" and the str proof "100"; no call made
\* after construction appends another such block.
C13_GenesisOnce ==
    \A i \in 1..Len(chain) :
        (chain[i].PreviousHash = <<49>> /\ chain[i].Hash = PyStrVal(<<49, 48, 48>>)) <=> i = 1

\* C14: the proof a create_block call stores is the least p >= 0 that
\* validate_proof accepts against the last block's proof and hash_block of
\* the last block as they were when the call was made; the search returns
\* whenever such a p exists (up to MaxProof); and two blocks sealed against
\* the same last proof and last hash carry the same proof.
C14_LeastProof ==
    /\ [][lastOp' = "create_block" =>
             LET last_block == get_last_block(chain)
                 last_hash == hash_block(last_block, lists, objs)
                 p == retBlock'.Hash.n
             IN  /\ retBlock'.Hash.ty = "int"
                 /\ p >= 0
                 /\ validate_proof(last_block.Hash, PyIntVal(p), last_hash)
                 /\ \A q \in 0..(p - 1) :
                       ~validate_proof(last_block.Hash, PyIntVal(q), last_hash)]_vars
    /\ []((\E p \in 0..MaxProof :
              validate_proof(get_last_block(chain).Hash, PyIntVal(p),
                             hash_block(get_last_block(chain), lists, objs)))
          => generate_proof_of_work(chain, lists, objs) \in 0..MaxProof)
    /\ [](\A i, j \in 2..Len(chain) :
            (/\ chain[i - 1].Hash = chain[j - 1].Hash
             /\ chain[i].PreviousHash = chain[j].PreviousHash)
            => chain[i].Hash = chain[j].Hash)

\* C14 witness: a search that rejected proofs 0, 1 and 2 before it returned.
C14_Witness == lastOp = "create_block" /\ retBlock.Hash.ty = "int" /\ retBlock.Hash.n >= 3

\* C15: with create_transaction calls running between the statements of a
\* create_block call, a transaction submitted after the block was appended
\* and before the queue was replaced goes into that block, which was in the
\* chain already when the transaction was submitted (it is mis-attributed),
\* and stays there: it is never pending again.
C15_InterleavedMisattributed ==
    /\ [][(Len(objs') = Len(objs) + 1 /\ pc \in {"reset", "clear"}) =>
             LET ref == Len(objs) + 1
                 holders == {i \in 1..Len(chain') :
                               \E k \in 1..Len(lists'[chain'[i].Transactions]) :
                                   lists'[chain'[i].Transactions][k] = ref}
             IN  /\ retTx' = ref
                 /\ submittedAt'[ref].size = get_size(chain)
                 /\ get_size(chain) \in holders
                 /\ \A i \in holders : i <= get_size(chain)]_vars
    /\ [](\A ref \in 1..Len(objs) :
            (submittedAt[ref].pc \in {"reset", "clear"} /\ pc = "idle")
            => (Misattributed(ref) /\ ~InPending(ref) /\ ~raised))

\* C15 witness: both calls have returned; the block of the create_block call
\* holds the transaction that was queued before the call and a transaction
\* that was submitted after the block was appended; the queue is empty.
C15_Witness ==
    /\ pc = "idle"
    /\ lastOp = "create_block"
    /\ Pending = <<>>
    /\ \E ref \in 1..Len(objs) :
          /\ submittedAt[ref].pc = "reset"
          /\ submittedAt[ref].size = get_size(chain)
          /\ lists[chain[get_size(chain)].Transactions] = <<1, ref>>
          /\ Misattributed(ref)

\* C16: get_size returns the number of blocks, get_last_block the last
\* block of the chain and get_chain the chain in order; none of them raises
\* or changes the chain, the pending queue or any list.
C16_AccessorsPure ==
    [][lastOp' \in {"get_size", "get_last_block", "get_chain"} =>
          /\ lastOp' = "get_size" => callRet' = Len(chain)
          /\ lastOp' = "get_last_block" => retBlock' = chain[Len(chain)]
          /\ lastOp' = "get_chain" => callRet' = chain
          /\ raised' = FALSE
          /\ chain' = chain
          /\ current' = current
          /\ lists' = lists
          /\ objs' = objs]_vars

\* C16 witness: get_chain has returned a chain of three blocks, the last of
\* them sealed from a non-empty queue.
C16_Witness ==
    /\ lastOp = "get_chain"
    /\ Len(callRet) = 3
    /\ Len(BlockTransactions(callRet[3])) > 0

\* C17: validate_proof returns TRUE exactly when the hexadecimal digest of
\* last_proof, proof and last_hash written one after the other, in that
\* order, starts with ZeroPrefixLen characters "0"; the call changes nothing
\* of the object.
C17_ValidateProof ==
    [][lastOp' = "validate_proof" =>
          LET guess == Format(callArgs.last_proof) \o Format(callArgs.proof)
                         \o callArgs.last_hash
              digest == HexDigest(Sha256(guess))
          IN  /\ callRet' = (\A k \in 1..ZeroPrefixLen : digest[k] = 48)
              /\ raised' = FALSE
              /\ chain' = chain
              /\ current' = current
              /\ lists' = lists
              /\ objs' = objs]_vars

\* C17 witness: a call that returned True for a guess whose parts differ.
C17_Witness ==
    /\ lastOp = "validate_proof"
    /\ callRet = TRUE
    /\ callArgs.last_proof # callArgs.proof

====
